---- MODULE Spec2Model ----
(***************************************************************************)
(* PastaPass wallet stamp engine: the cooldown variant of the server       *)
(* (src/server/index.js, lines 246-529).  The store holds the customers    *)
(* and wallets tables; a request handler runs as a sequence of steps, one  *)
(* per storage call, each step being the storage call together with the    *)
(* synchronous code that follows it up to the next storage call.           *)
(*                                                                         *)
(* Text columns hold a string or NULL; the two timestamp columns hold an   *)
(* ISO-8601 string, modelled as the record of its seconds and milliseconds *)
(* fields, or NULL_TS (the same SQL NULL, kept apart from NULL only        *)
(* because the model's values are typed).  created_at is write-only and    *)
(* left out.                                                               *)
(***************************************************************************)
EXTENDS Integers, Sequences, FiniteSets, TLC

VARIABLES customers, wallets, clock, pc, req, loc, resp, hist, signedUp,
          schema, boot

vars == <<customers, wallets, clock, pc, req, loc, resp, hist, signedUp,
          schema, boot>>

-----------------------------------------------------------------------------
(* Bounds of the model *)

NProcs == 2              \* request slots of the concurrent specification
StartClock == 1000000    \* Date.now() when the server starts (>= COOLDOWN_MS)
Jitter == 200            \* clock steps are half a cooldown -/+ Jitter ms
MaxHalves == 2           \* the clock stops after this many half cooldowns
MaxHalvesLong == 24      \* the same, in the one-customer specification
MaxHalvesConc == 2       \* the same, in the concurrent specification
MaxHalvesRace == 20      \* the same, in the overlapping-scans specification
MaxHalvesFail == 4       \* the same, in the lost-reply specification
MaxBoots == 3            \* starts of the server process

(* Program constants *)

COOLDOWN_MS == 2 * 60 * 1000
QR_SECRET == "PASTA123"
REWARD == "Congratulations - you've earned a FREE pasta for being a loyal customer!"

NULL == "<null>"
NULL_TS == [sec |-> -1, ms |-> -1]

Procs == 1..NProcs
Identifiers == {"a@x.com", "555"}
Names == {"Ann"}
Tokens == {NULL, "", "PASTA123", "WRONG"}
\* the { email, phone } pairs signups carry: an email alone, an email with a
\* phone, a phone alone, and a phone field that holds another customer's email
SignupInputs == {<<"a@x.com", NULL>>, <<"a@x.com", "555">>, <<NULL, "555">>,
                 <<"555", "a@x.com">>, <<NULL, NULL>>}
TickSteps == {COOLDOWN_MS \div 2 - Jitter, COOLDOWN_MS \div 2 + Jitter}

-----------------------------------------------------------------------------
(* JavaScript helpers *)

\* truthiness of a string-or-null value
Truthy(x) == x # NULL /\ x # ""

\* a || b on string-or-null values
Or(a, b) == IF Truthy(a) THEN a ELSE b

\* mutant: every identifier is taken for an email
includesAtAlways(s) == TRUE

\* String.prototype.includes("@") on the identifiers the model draws
includesAt(s) == s \in {"a@x.com"}

\* new Date(t).toISOString(): the calendar fields down to the second, and
\* the three millisecond digits
toISOString(t) == [sec |-> t \div 1000, ms |-> t % 1000]

\* Date.parse of an ISO string
DateParse(s) == s.sec * 1000 + s.ms

\* Math.ceil(x / k) for an integer x and k > 0
Ceil(x, k) == -((-x) \div k)

\* Math.round(x / k) for x >= 0 and k > 0
Round(x, k) == (2 * x + k) \div (2 * k)

\* A value of the JSON request body, by its type: a string, a number, a
\* boolean (num 1 or 0), null, an array of strings, an object, or undefined
\* for a field that is absent
JsUndefined == [type |-> "undefined", str |-> "", num |-> 0, items |-> <<>>]
JsNull == [type |-> "null", str |-> "", num |-> 0, items |-> <<>>]
JsObject == [type |-> "object", str |-> "", num |-> 0, items |-> <<>>]
JsStr(s) == [type |-> "string", str |-> s, num |-> 0, items |-> <<>>]
JsNum(n) == [type |-> "number", str |-> "", num |-> n, items |-> <<>>]
JsBool(b) == [type |-> "boolean", str |-> "", num |-> IF b THEN 1 ELSE 0, items |-> <<>>]
JsArr(items) == [type |-> "array", str |-> "", num |-> 0, items |-> items]

\* a string-or-null field of the model as a body value
BodyField(x) == IF x = NULL THEN JsUndefined ELSE JsStr(x)

\* truthiness of a body value
JsTruthy(v) ==
    CASE v.type = "string" -> v.str # ""
      [] v.type = "number" -> v.num # 0
      [] v.type = "boolean" -> v.num = 1
      [] v.type \in {"array", "object"} -> TRUE
      [] OTHER -> FALSE

RECURSIVE Join(_)
\* Array.prototype.join(",") of an array of strings
Join(items) ==
    IF items = <<>> THEN ""
    ELSE IF Len(items) = 1 THEN items[1]
    ELSE items[1] \o "," \o Join(Tail(items))

\* String(v)
JsString(v) ==
    CASE v.type = "string" -> v.str
      [] v.type = "number" -> ToString(v.num)
      [] v.type = "boolean" -> IF v.num = 1 THEN "true" ELSE "false"
      [] v.type = "array" -> Join(v.items)
      [] v.type = "object" -> "[object Object]"
      [] v.type = "null" -> "null"
      [] OTHER -> "undefined"

\* mutant: any truthy token is taken for the secret
isValidStaticTokenNoCheck(t) == JsTruthy(t)

\* mutant: only a token of type string can be the secret
isValidStaticTokenStrict(t) == t.type = "string" /\ t.str = QR_SECRET

\* return t && String(t) === String(QR_SECRET)
isValidStaticToken(t) == JsTruthy(t) /\ JsString(t) = JsString(JsStr(QR_SECRET))

\* the token values the validator is tried on
JsonTokens == {JsUndefined, JsNull, JsObject, JsStr(""), JsStr("PASTA123"),
               JsStr("pasta123"), JsStr("PASTA123 "), JsStr("PASTA123,PASTA123"),
               JsNum(0), JsNum(123), JsBool(TRUE), JsBool(FALSE), JsArr(<<>>),
               JsArr(<<"PASTA123">>), JsArr(<<"PASTA123", "PASTA123">>)}

-----------------------------------------------------------------------------
(* Storage *)

NoRow == [id |-> NULL, name |-> NULL, email |-> NULL, phone |-> NULL]
NoWallet == [customer_id |-> NULL, stamps |-> 0,
             last_redeemed_at |-> NULL_TS, last_stamped_at |-> NULL_TS]

\* rows of customers, in rowid order, that an identifier matches
Matches(identifier) ==
    SelectSeq(customers, LAMBDA r : r.email = identifier \/ r.phone = identifier)

\* mutant: the lookup is by id instead of by email or phone
getCustomerById(identifier) ==
    IF SelectSeq(customers, LAMBDA r : r.id = identifier) = <<>> THEN NoRow
    ELSE Head(SelectSeq(customers, LAMBDA r : r.id = identifier))

\* mutant: the newest matching row instead of the oldest
getCustomerNewest(identifier) ==
    IF Matches(identifier) = <<>> THEN NoRow
    ELSE Matches(identifier)[Len(Matches(identifier))]

\* SELECT ... WHERE email = ? OR phone = ? LIMIT 1 (a NULL column matches
\* nothing; the identifier is never NULL here)
getCustomerByIdentifier(identifier) ==
    IF Matches(identifier) = <<>> THEN NoRow ELSE Head(Matches(identifier))

\* mutant: the customers table has no PRIMARY KEY and no UNIQUE constraint
CustomerInsertUnchecked(row) == TRUE

\* mutant: only the PRIMARY KEY is enforced
CustomerInsertPkOnly(row) == \A i \in 1..Len(customers) : customers[i].id # row.id

\* the PRIMARY KEY and UNIQUE constraints of the customers table
CustomerInsertOk(row) ==
    \A i \in 1..Len(customers) :
        /\ customers[i].id # row.id
        /\ row.email # NULL => customers[i].email # row.email
        /\ row.phone # NULL => customers[i].phone # row.phone

\* mutant: the wallet lookup never finds the row
HasWalletNever(customerId) == FALSE

\* a row of wallets with this customer_id (the table's PRIMARY KEY) exists
HasWallet(customerId) == customerId \in DOMAIN wallets

getWallet(customerId) ==
    IF HasWallet(customerId)
    THEN [customer_id |-> customerId,
          stamps |-> wallets[customerId].stamps,
          last_redeemed_at |-> wallets[customerId].last_redeemed_at,
          last_stamped_at |-> wallets[customerId].last_stamped_at]
    ELSE NoWallet

FreshWallet(customerId) ==
    [customer_id |-> customerId, stamps |-> 0,
     last_redeemed_at |-> NULL_TS, last_stamped_at |-> NULL_TS]

\* INSERT INTO wallets ... VALUES (?, 0, NULL, NULL)
createWallet(customerId) ==
    [id \in DOMAIN wallets \cup {customerId} |->
        IF id = customerId
        THEN [stamps |-> 0, last_redeemed_at |-> NULL_TS, last_stamped_at |-> NULL_TS]
        ELSE wallets[id]]

\* mutant: the update sets the stamps column alone
updateWalletStampsOnly(customerId, stamps, lastRedeemedAt, lastStampedAt) ==
    [id \in DOMAIN wallets |->
        IF id = customerId
        THEN [wallets[id] EXCEPT !.stamps = stamps]
        ELSE wallets[id]]

\* UPDATE wallets SET stamps = ?, last_redeemed_at = ?, last_stamped_at = ?
\* WHERE customer_id = ?   (no row matched: nothing changes)
updateWallet(customerId, stamps, lastRedeemedAt, lastStampedAt) ==
    [id \in DOMAIN wallets |->
        IF id = customerId
        THEN [stamps |-> stamps, last_redeemed_at |-> lastRedeemedAt,
              last_stamped_at |-> lastStampedAt]
        ELSE wallets[id]]

\* the tables and the columns of the store file: no file yet, and the file
\* the static-token server leaves (wallets without last_stamped_at)
NewStore == [customers |-> FALSE, wallets |-> FALSE, last_stamped_at |-> FALSE]
OlderStore == [customers |-> TRUE, wallets |-> TRUE, last_stamped_at |-> FALSE]

\* mutant: the ALTER TABLE is not wrapped in try / catch
initSchemaAlterUncaught(db) ==
    [schema |-> [customers |-> TRUE, wallets |-> TRUE, last_stamped_at |-> TRUE],
     customers |-> IF db.schema.customers THEN db.customers ELSE <<>>,
     wallets |-> IF db.schema.wallets THEN db.wallets ELSE << >>,
     threw |-> IF db.schema.wallets THEN db.schema.last_stamped_at ELSE TRUE]

\* CREATE TABLE IF NOT EXISTS customers, CREATE TABLE IF NOT EXISTS wallets
\* (a table that exists keeps its columns and rows; a new one is empty and
\* has last_stamped_at), then ALTER TABLE wallets ADD COLUMN last_stamped_at,
\* which gives the rows a NULL in the new column, or throws when the column
\* exists: the catch swallows it
initSchema(db) ==
    LET c == IF db.schema.customers THEN db.customers ELSE <<>>
        w == IF db.schema.wallets THEN db.wallets ELSE << >>
        hasColumn == IF db.schema.wallets THEN db.schema.last_stamped_at ELSE TRUE
    IN  [schema |-> [customers |-> TRUE, wallets |-> TRUE, last_stamped_at |-> TRUE],
         customers |-> c,
         wallets |-> IF hasColumn THEN w
                     ELSE [id \in DOMAIN w |-> [w[id] EXCEPT !.last_stamped_at = NULL_TS]],
         threw |-> FALSE]

-----------------------------------------------------------------------------
(* The stamp transition and the cooldown guard of POST /api/stamps/add *)

THRESHOLD == 10

\* const last = wallet.last_stamped_at ? Date.parse(wallet.last_stamped_at) : 0
LastStamped(wallet) ==
    IF wallet.last_stamped_at # NULL_TS THEN DateParse(wallet.last_stamped_at) ELSE 0

\* mutant: the cooldown never ends
InCooldownAlways(diff) == TRUE

\* mutant: the millisecond difference is compared with the cooldown in seconds
InCooldownSeconds(diff) == diff < COOLDOWN_MS \div 1000

\* mutant: the boundary itself is still inside the cooldown
InCooldownInclusive(diff) == diff <= COOLDOWN_MS

\* if (diff < COOLDOWN_MS)
InCooldown(diff) == diff < COOLDOWN_MS

\* mutant: rounds to the nearest second instead of up
SecondsLeftRounded(diff) == Round(COOLDOWN_MS - diff, 1000)

\* mutant: the remaining seconds are rounded down
SecondsLeftFloored(diff) == (COOLDOWN_MS - diff) \div 1000

\* Math.ceil((COOLDOWN_MS - diff) / 1000)
SecondsLeft(diff) == Ceil(COOLDOWN_MS - diff, 1000)

\* mutant: the redemption branch keeps counting instead of resetting
AwardStampsNoReset(stamps) == stamps + 1

\* mutant: the card resets on the scan that reaches the threshold (the
\* legacy addStamp counter)
AwardStampsLegacy(stamps) == IF stamps + 1 >= THRESHOLD THEN 0 ELSE stamps + 1

\* the stamps value the award / redemption branch writes
AwardStamps(stamps) == IF stamps < THRESHOLD THEN stamps + 1 ELSE 0

\* mutant: the scan that reaches the threshold is reported as the redemption
AwardRedeemedOnReach(stamps) == stamps + 1 >= THRESHOLD

\* redeemedNow
AwardRedeemed(stamps) == ~(stamps < THRESHOLD)

\* mutant: the reward message comes one scan early
AwardMessageEarly(stamps) ==
    IF stamps + 1 = THRESHOLD - 1 THEN REWARD ELSE NULL

\* rewardMessage
AwardMessage(stamps) ==
    IF stamps < THRESHOLD /\ stamps + 1 = THRESHOLD THEN REWARD ELSE NULL

\* the lastRedeemedAt argument of updateWallet
AwardRedeemedAt(wallet, now) ==
    IF wallet.stamps < THRESHOLD THEN wallet.last_redeemed_at ELSE toISOString(now)

\* mutant: the redemption branch leaves last_stamped_at as it was read
AwardStampedAtAccrualOnly(wallet, now) ==
    IF wallet.stamps < THRESHOLD THEN toISOString(now) ELSE wallet.last_stamped_at

\* the lastStampedAt argument of updateWallet: new Date().toISOString() in
\* both branches
AwardStampedAt(wallet, now) == toISOString(now)

-----------------------------------------------------------------------------
(* Requests, handler locals and responses *)

NoReq == [op |-> "none", name |-> NULL, email |-> NULL, phone |-> NULL,
          identifier |-> NULL, token |-> NULL]

NoLoc == [customer |-> NoRow, wallet |-> NoWallet, stamps |-> 0,
          redeemedNow |-> FALSE, rewardMessage |-> NULL,
          lastRedeemedAt |-> NULL_TS, lastStampedAt |-> NULL_TS]

NoResp == [op |-> "none", status |-> 0, customerId |-> NULL, stamps |-> 0,
           redeemed |-> FALSE, rewardMessage |-> NULL, cooldown |-> FALSE,
           secondsLeft |-> 0, cooldownMinutes |-> 0]

\* res.status(code).json({ error })
ErrorResp(op, code) == [NoResp EXCEPT !.op = op, !.status = code]

\* leave the handler with a response
Reply(p, r) ==
    /\ pc' = [pc EXCEPT ![p] = "done"]
    /\ loc' = [loc EXCEPT ![p] = NoLoc]
    /\ resp' = [resp EXCEPT ![p] = r]

Goto(p, label) == pc' = [pc EXCEPT ![p] = label]

Init ==
    /\ customers = <<>>
    /\ wallets = << >>
    /\ clock = StartClock
    /\ pc = [p \in Procs |-> "idle"]
    /\ req = [p \in Procs |-> NoReq]
    /\ loc = [p \in Procs |-> NoLoc]
    /\ resp = [p \in Procs |-> NoResp]
    /\ hist = [id \in Identifiers |-> <<>>]
    /\ signedUp = [e \in Identifiers |-> NULL]
    /\ \E store \in {NewStore, OlderStore} :
          schema = initSchema([schema |-> store, customers |-> <<>>,
                               wallets |-> << >>]).schema
    /\ boot = [runs |-> 1, threw |-> FALSE]

-----------------------------------------------------------------------------
(* POST /api/signup *)

SignupBegin(p, name, email, phone) ==
    /\ pc[p] = "idle"
    /\ req' = [req EXCEPT ![p] = [NoReq EXCEPT !.op = "signup", !.name = name,
                  !.email = email, !.phone = phone, !.identifier = Or(email, phone)]]
    /\ IF ~Truthy(Or(email, phone))
       THEN Reply(p, ErrorResp("signup", 400))
       ELSE /\ Goto(p, "su_get")
            /\ UNCHANGED <<loc, resp>>
    /\ UNCHANGED <<customers, wallets, clock, hist, signedUp, schema, boot>>

\* let customer = await getCustomerByIdentifier(identifier)
SignupGetCustomer(p) ==
    /\ pc[p] = "su_get"
    /\ loc' = [loc EXCEPT ![p].customer = getCustomerByIdentifier(req[p].identifier)]
    /\ Goto(p, IF getCustomerByIdentifier(req[p].identifier) = NoRow
               THEN "su_create" ELSE "su_wallet")
    /\ UNCHANGED <<customers, wallets, clock, req, resp, hist, signedUp, schema, boot>>

SignupRow(r) ==
    [id |-> r.identifier, name |-> r.name,
     email |-> Or(r.email, NULL), phone |-> Or(r.phone, NULL)]

\* await createCustomer({ id, name, email: email || null, phone: phone || null })
SignupCreateCustomer(p) ==
    /\ pc[p] = "su_create"
    /\ IF CustomerInsertOk(SignupRow(req[p]))
       THEN /\ customers' = Append(customers, SignupRow(req[p]))
            /\ Goto(p, "su_reget")
            /\ UNCHANGED <<req, loc, resp>>
       ELSE /\ Reply(p, ErrorResp("signup", 500))
            /\ UNCHANGED <<customers, req>>
    /\ UNCHANGED <<wallets, clock, hist, signedUp, schema, boot>>

\* customer = await getCustomerByIdentifier(identifier)
SignupRefetch(p) ==
    /\ pc[p] = "su_reget"
    /\ loc' = [loc EXCEPT ![p].customer = getCustomerByIdentifier(req[p].identifier)]
    /\ Goto(p, "su_wallet")
    /\ UNCHANGED <<customers, wallets, clock, req, resp, hist, signedUp, schema, boot>>

SignupResp(customer, wallet) ==
    [NoResp EXCEPT !.op = "signup", !.status = 200, !.customerId = customer.id,
                   !.stamps = wallet.stamps]

\* res.json({ customer, wallet }); the history variables note the customer
\* id the first signup with an email returned, and a signup that is the
\* customer's first response
SignupDone(p, wallet) ==
    /\ Reply(p, SignupResp(loc[p].customer, wallet))
    /\ UNCHANGED req
    /\ signedUp' = IF Truthy(req[p].email) /\ signedUp[req[p].email] = NULL
                   THEN [signedUp EXCEPT ![req[p].email] = loc[p].customer.id]
                   ELSE signedUp
    /\ hist' = IF hist[loc[p].customer.id] = <<>>
               THEN [hist EXCEPT ![loc[p].customer.id] =
                       <<[op |-> "signup", stamps |-> wallet.stamps, redeemed |-> FALSE,
                          rewardMessage |-> NULL, before |-> wallet.stamps]>>]
               ELSE hist

\* let wallet = await getWallet(customer.id); found: res.json(...)
SignupGetWallet(p) ==
    /\ pc[p] = "su_wallet"
    /\ IF HasWallet(loc[p].customer.id)
       THEN SignupDone(p, getWallet(loc[p].customer.id))
       ELSE /\ Goto(p, "su_mkwallet")
            /\ UNCHANGED <<req, loc, resp, signedUp, hist>>
    /\ UNCHANGED <<customers, wallets, clock, schema, boot>>

\* await createWallet(customer.id); res.json(...)
SignupCreateWallet(p) ==
    /\ pc[p] = "su_mkwallet"
    /\ IF HasWallet(loc[p].customer.id)
       THEN /\ Reply(p, ErrorResp("signup", 500))
            /\ UNCHANGED <<wallets, req, signedUp, hist>>
       ELSE /\ wallets' = createWallet(loc[p].customer.id)
            /\ SignupDone(p, FreshWallet(loc[p].customer.id))
    /\ UNCHANGED <<customers, clock, schema, boot>>

-----------------------------------------------------------------------------
(* POST /api/stamps/add *)

\* mutant: the identifier is checked before the token
StampBeginIdentifierFirst(p, identifier, token) ==
    /\ pc[p] = "idle"
    /\ req' = [req EXCEPT ![p] = [NoReq EXCEPT !.op = "stamp",
                  !.identifier = identifier, !.token = token]]
    /\ IF ~Truthy(identifier)
       THEN Reply(p, ErrorResp("stamp", 400))
       ELSE IF ~isValidStaticToken(BodyField(token))
       THEN Reply(p, ErrorResp("stamp", 401))
       ELSE /\ Goto(p, "sa_get")
            /\ UNCHANGED <<loc, resp>>
    /\ UNCHANGED <<customers, wallets, clock, hist, signedUp, schema, boot>>

\* const { identifier, token } = req.body; the token check, then the
\* identifier check
StampBegin(p, identifier, token) ==
    /\ pc[p] = "idle"
    /\ req' = [req EXCEPT ![p] = [NoReq EXCEPT !.op = "stamp",
                  !.identifier = identifier, !.token = token]]
    /\ IF ~isValidStaticToken(BodyField(token))
       THEN Reply(p, ErrorResp("stamp", 401))
       ELSE IF ~Truthy(identifier)
       THEN Reply(p, ErrorResp("stamp", 400))
       ELSE /\ Goto(p, "sa_get")
            /\ UNCHANGED <<loc, resp>>
    /\ UNCHANGED <<customers, wallets, clock, hist, signedUp, schema, boot>>

\* let customer = await getCustomerByIdentifier(identifier)
StampGetCustomer(p) ==
    /\ pc[p] = "sa_get"
    /\ loc' = [loc EXCEPT ![p].customer = getCustomerByIdentifier(req[p].identifier)]
    /\ Goto(p, IF getCustomerByIdentifier(req[p].identifier) = NoRow
               THEN "sa_create" ELSE "sa_wallet")
    /\ UNCHANGED <<customers, wallets, clock, req, resp, hist, signedUp, schema, boot>>

\* mutant: only an email identifier is stored
StampRowEmailOnly(identifier) ==
    [id |-> identifier, name |-> NULL,
     email |-> IF includesAt(identifier) THEN identifier ELSE NULL,
     phone |-> NULL]

StampRow(identifier) ==
    [id |-> identifier, name |-> NULL,
     email |-> IF includesAt(identifier) THEN identifier ELSE NULL,
     phone |-> IF includesAt(identifier) THEN NULL ELSE identifier]

\* await createCustomer({ id, name: null, email: ..., phone: ... })
StampCreateCustomer(p) ==
    /\ pc[p] = "sa_create"
    /\ IF CustomerInsertOk(StampRow(req[p].identifier))
       THEN /\ customers' = Append(customers, StampRow(req[p].identifier))
            /\ Goto(p, "sa_reget")
            /\ UNCHANGED <<req, loc, resp>>
       ELSE /\ Reply(p, ErrorResp("stamp", 500))
            /\ UNCHANGED <<customers, req>>
    /\ UNCHANGED <<wallets, clock, hist, signedUp, schema, boot>>

\* customer = await getCustomerByIdentifier(identifier)
StampRefetch(p) ==
    /\ pc[p] = "sa_reget"
    /\ loc' = [loc EXCEPT ![p].customer = getCustomerByIdentifier(req[p].identifier)]
    /\ Goto(p, "sa_wallet")
    /\ UNCHANGED <<customers, wallets, clock, req, resp, hist, signedUp, schema, boot>>

\* let wallet = await getWallet(customer.id)
StampGetWallet(p) ==
    /\ pc[p] = "sa_wallet"
    /\ IF HasWallet(loc[p].customer.id)
       THEN /\ loc' = [loc EXCEPT ![p].wallet = getWallet(loc[p].customer.id)]
            /\ Goto(p, "sa_check")
       ELSE /\ Goto(p, "sa_mkwallet")
            /\ UNCHANGED loc
    /\ UNCHANGED <<customers, wallets, clock, req, resp, hist, signedUp, schema, boot>>

\* await createWallet(customer.id); wallet = { ..., stamps: 0, ... }
StampCreateWallet(p) ==
    /\ pc[p] = "sa_mkwallet"
    /\ IF HasWallet(loc[p].customer.id)
       THEN /\ Reply(p, ErrorResp("stamp", 500))
            /\ UNCHANGED <<wallets, req>>
       ELSE /\ wallets' = createWallet(loc[p].customer.id)
            /\ loc' = [loc EXCEPT ![p].wallet = FreshWallet(loc[p].customer.id)]
            /\ Goto(p, "sa_check")
            /\ UNCHANGED <<req, resp>>
    /\ UNCHANGED <<customers, clock, hist, signedUp, schema, boot>>

CooldownResp(customer, wallet, diff) ==
    [NoResp EXCEPT !.op = "stamp", !.status = 200, !.customerId = customer.id,
                   !.stamps = wallet.stamps, !.cooldown = TRUE,
                   !.cooldownMinutes = Round(COOLDOWN_MS, 60000),
                   !.secondsLeft = SecondsLeft(diff)]

\* the cooldown check and, when it passes, the award / redemption branch up
\* to the call of updateWallet; now = Date.now() and the new Date() of the
\* branch read the clock in the same synchronous run of the handler
StampCheck(p) ==
    /\ pc[p] = "sa_check"
    /\ IF InCooldown(clock - LastStamped(loc[p].wallet))
       THEN /\ Reply(p, CooldownResp(loc[p].customer, loc[p].wallet,
                                     clock - LastStamped(loc[p].wallet)))
            /\ UNCHANGED req
       ELSE /\ loc' = [loc EXCEPT
                  ![p].stamps = AwardStamps(loc[p].wallet.stamps),
                  ![p].redeemedNow = AwardRedeemed(loc[p].wallet.stamps),
                  ![p].rewardMessage = AwardMessage(loc[p].wallet.stamps),
                  ![p].lastRedeemedAt = AwardRedeemedAt(loc[p].wallet, clock),
                  ![p].lastStampedAt = AwardStampedAt(loc[p].wallet, clock)]
            /\ Goto(p, "sa_update")
            /\ UNCHANGED <<req, resp>>
    /\ UNCHANGED <<customers, wallets, clock, hist, signedUp, schema, boot>>

StampResp(l) ==
    [NoResp EXCEPT !.op = "stamp", !.status = 200, !.customerId = l.customer.id,
                   !.stamps = l.stamps, !.redeemed = l.redeemedNow,
                   !.rewardMessage = l.rewardMessage]

\* await updateWallet({...}); return res.json({ customerId, stamps, redeemed, rewardMessage })
StampUpdateWallet(p) ==
    /\ pc[p] = "sa_update"
    /\ wallets' = updateWallet(loc[p].customer.id, loc[p].stamps,
                               loc[p].lastRedeemedAt, loc[p].lastStampedAt)
    /\ Reply(p, StampResp(loc[p]))
    /\ hist' = [hist EXCEPT ![loc[p].customer.id] =
                   Append(@, [op |-> "stamp",
                              stamps |-> loc[p].stamps,
                              redeemed |-> loc[p].redeemedNow,
                              rewardMessage |-> loc[p].rewardMessage,
                              before |-> getWallet(loc[p].customer.id).stamps])]
    /\ UNCHANGED <<customers, clock, req, signedUp, schema, boot>>

-----------------------------------------------------------------------------
(* The environment *)

\* the client has read the response
Return(p) ==
    /\ pc[p] = "done"
    /\ pc' = [pc EXCEPT ![p] = "idle"]
    /\ req' = [req EXCEPT ![p] = NoReq]
    /\ resp' = [resp EXCEPT ![p] = NoResp]
    /\ UNCHANGED <<customers, wallets, clock, loc, hist, signedUp, schema, boot>>

AwaitingStorage(p) == pc[p] \notin {"idle", "done", "sa_check"}

\* a storage call throws (backend unreachable, query failure): the catch
\* block answers 500
StorageFail(p) ==
    /\ AwaitingStorage(p)
    /\ Reply(p, ErrorResp(req[p].op, 500))
    /\ UNCHANGED <<customers, wallets, clock, req, hist, signedUp, schema, boot>>

\* a write statement is applied by the backend but its reply is lost
\* (turso.execute rejects after the statement ran): the catch block answers
\* 500 although the row is written
StorageFailAfterWrite(p) ==
    /\ pc[p] \in {"su_create", "sa_create", "su_mkwallet", "sa_mkwallet", "sa_update"}
    /\ pc[p] = "su_create" => CustomerInsertOk(SignupRow(req[p]))
    /\ pc[p] = "sa_create" => CustomerInsertOk(StampRow(req[p].identifier))
    /\ pc[p] \in {"su_mkwallet", "sa_mkwallet"} => ~HasWallet(loc[p].customer.id)
    /\ customers' = CASE pc[p] = "su_create" -> Append(customers, SignupRow(req[p]))
                      [] pc[p] = "sa_create" -> Append(customers, StampRow(req[p].identifier))
                      [] OTHER -> customers
    /\ wallets' = CASE pc[p] \in {"su_mkwallet", "sa_mkwallet"} ->
                           createWallet(loc[p].customer.id)
                    [] pc[p] = "sa_update" ->
                           updateWallet(loc[p].customer.id, loc[p].stamps,
                                        loc[p].lastRedeemedAt, loc[p].lastStampedAt)
                    [] OTHER -> wallets
    /\ Reply(p, ErrorResp(req[p].op, 500))
    /\ UNCHANGED <<clock, req, hist, signedUp, schema, boot>>

\* the validator alone: a token arrives with a request
Present(p, identifier, token) ==
    /\ pc[p] = "done" /\ req[p].op = "token"
    /\ pc' = [pc EXCEPT ![p] = "idle"]
    /\ req' = [req EXCEPT ![p] = [NoReq EXCEPT !.op = "token",
                  !.identifier = identifier, !.token = token]]
    /\ resp' = [resp EXCEPT ![p] = NoResp]
    /\ UNCHANGED <<customers, wallets, clock, loc, hist, signedUp, schema, boot>>

\* if (!isValidStaticToken(token)) return res.status(401)
Authorize(p) ==
    /\ pc[p] = "idle" /\ req[p].op = "token"
    /\ Reply(p, [NoResp EXCEPT !.op = "token",
                    !.status = IF isValidStaticToken(req[p].token) THEN 200 ELSE 401])
    /\ UNCHANGED <<customers, wallets, clock, req, hist, signedUp, schema, boot>>

\* the server process stops and is started again: the requests in flight
\* die with it, and the bootstrap runs initSchema on the store as it is
Restart ==
    /\ boot.runs < MaxBoots
    /\ LET db == initSchema([schema |-> schema, customers |-> customers,
                              wallets |-> wallets])
       IN  /\ schema' = db.schema
           /\ customers' = db.customers
           /\ wallets' = db.wallets
           /\ boot' = [runs |-> boot.runs + 1, threw |-> db.threw]
    /\ pc' = [p \in Procs |-> "idle"]
    /\ req' = [p \in Procs |-> NoReq]
    /\ loc' = [p \in Procs |-> NoLoc]
    /\ resp' = [p \in Procs |-> NoResp]
    /\ UNCHANGED <<clock, hist, signedUp>>

\* the latest stamp time in the store, or the start of the server
LastActivity ==
    LET ts == {DateParse(wallets[id].last_stamped_at) :
                  id \in {i \in DOMAIN wallets : wallets[i].last_stamped_at # NULL_TS}}
    IN  IF ts = {} THEN StartClock ELSE CHOOSE t \in ts : \A u \in ts : u <= t

\* wall-clock time passes
Tick(d, halves) ==
    /\ clock + d <= StartClock + halves * (COOLDOWN_MS \div 2 + Jitter)
    /\ clock + d <= LastActivity + COOLDOWN_MS + 2 * Jitter
    /\ \A p \in Procs : pc[p] # "done"
    /\ clock' = clock + d
    /\ UNCHANGED <<customers, wallets, pc, req, loc, resp, hist, signedUp,
                 schema, boot>>

Step(p, ids) ==
    \/ \E n \in Names, i \in {j \in SignupInputs : {j[1], j[2]} \subseteq ids \cup {NULL}} :
          SignupBegin(p, n, i[1], i[2])
    \/ SignupGetCustomer(p)
    \/ SignupCreateCustomer(p)
    \/ SignupRefetch(p)
    \/ SignupGetWallet(p)
    \/ SignupCreateWallet(p)
    \/ \E i \in ids \cup {NULL, ""}, t \in Tokens : StampBegin(p, i, t)
    \/ StampGetCustomer(p)
    \/ StampCreateCustomer(p)
    \/ StampRefetch(p)
    \/ StampGetWallet(p)
    \/ StampCreateWallet(p)
    \/ StampCheck(p)
    \/ StampUpdateWallet(p)
    \/ StorageFail(p)
    \/ Return(p)

\* one request at a time, any customer
Next ==
    \/ Step(1, Identifiers)
    \/ \E d \in TickSteps : Tick(d, MaxHalves)

Spec == Init /\ [][Next]_vars

\* one request at a time, one customer, through a whole card
NextLong ==
    \/ Step(1, {"a@x.com"})
    \/ \E d \in TickSteps : Tick(d, MaxHalvesLong)

SpecLong == Init /\ [][NextLong]_vars

\* requests interleave at every storage call
NextConc ==
    \/ \E p \in Procs : Step(p, {"a@x.com"})
    \/ \E d \in TickSteps : Tick(d, MaxHalvesConc)

SpecConc == Init /\ [][NextConc]_vars

\* the steps of a valid-token scan of one customer's card
ScanStep(p) ==
    \/ StampBegin(p, "a@x.com", QR_SECRET)
    \/ StampGetCustomer(p)
    \/ StampCreateCustomer(p)
    \/ StampRefetch(p)
    \/ StampGetWallet(p)
    \/ StampCreateWallet(p)
    \/ StampCheck(p)
    \/ StampUpdateWallet(p)
    \/ Return(p)

\* a second device scans the same card when it is one stamp short of full;
\* the customer and the wallet exist by then
LateScanStep(p) ==
    \/ /\ HasWallet("a@x.com")
       /\ wallets["a@x.com"].stamps = THRESHOLD - 1
       /\ StampBegin(p, "a@x.com", QR_SECRET)
    \/ StampGetCustomer(p)
    \/ StampGetWallet(p)
    \/ StampCheck(p)
    \/ StampUpdateWallet(p)
    \/ Return(p)

\* valid-token scans of one customer through a whole card, the late scan
\* overlapping them; the clock moves a cooldown at a time
NextRace ==
    \/ ScanStep(1)
    \/ LateScanStep(2)
    \/ Tick(COOLDOWN_MS, MaxHalvesRace)

SpecRace == Init /\ [][NextRace]_vars

\* one request per slot, all for one identifier, interleaved at every
\* storage call; every storage call is answered
FirstStep(p) ==
    \/ \E n \in Names, i \in {j \in SignupInputs : {j[1], j[2]} \subseteq {"a@x.com", NULL}} :
          SignupBegin(p, n, i[1], i[2])
    \/ SignupGetCustomer(p)
    \/ SignupCreateCustomer(p)
    \/ SignupRefetch(p)
    \/ SignupGetWallet(p)
    \/ SignupCreateWallet(p)
    \/ \E i \in {"a@x.com", NULL, ""}, t \in Tokens : StampBegin(p, i, t)
    \/ StampGetCustomer(p)
    \/ StampCreateCustomer(p)
    \/ StampRefetch(p)
    \/ StampGetWallet(p)
    \/ StampCreateWallet(p)
    \/ StampCheck(p)
    \/ StampUpdateWallet(p)

NextFirst == \E p \in Procs : FirstStep(p)

SpecFirst == Init /\ [][NextFirst]_vars

\* the token validator on its own, on body values of every JSON type, with
\* any identifier, at any time, any number of times
InitToken ==
    /\ customers = <<>>
    /\ wallets = << >>
    /\ clock = StartClock
    /\ pc = [p \in Procs |-> "idle"]
    /\ \E i \in Identifiers \cup {NULL}, t \in JsonTokens :
          req = [p \in Procs |->
                    IF p = 1
                    THEN [NoReq EXCEPT !.op = "token", !.identifier = i, !.token = t]
                    ELSE NoReq]
    /\ loc = [p \in Procs |-> NoLoc]
    /\ resp = [p \in Procs |-> NoResp]
    /\ hist = [id \in Identifiers |-> <<>>]
    /\ signedUp = [e \in Identifiers |-> NULL]
    /\ \E store \in {NewStore, OlderStore} :
          schema = initSchema([schema |-> store, customers |-> <<>>,
                               wallets |-> << >>]).schema
    /\ boot = [runs |-> 1, threw |-> FALSE]

NextToken ==
    \/ Authorize(1)
    \/ \E i \in Identifiers \cup {NULL}, t \in JsonTokens : Present(1, i, t)
    \/ \E d \in TickSteps : Tick(d, MaxHalves)

SpecToken == InitToken /\ [][NextToken]_vars

\* one request at a time, one customer, the server restarting in between
NextSchema ==
    \/ Step(1, {"a@x.com"})
    \/ Restart
    \/ \E d \in TickSteps : Tick(d, MaxHalves)

SpecSchema == Init /\ [][NextSchema]_vars

\* one request at a time, one customer; a storage call may throw before it
\* takes effect or after
NextFail ==
    \/ Step(1, {"a@x.com"})
    \/ StorageFailAfterWrite(1)
    \/ \E d \in TickSteps : Tick(d, MaxHalvesFail)

SpecFail == Init /\ [][NextFail]_vars

-----------------------------------------------------------------------------------------------------------------------------------------------------
(* The earlier variants of the stamp-add handler.  The legacy server keeps
   the counter in the count column of a stamps table, held here in
   wallets[id].stamps; the static-token server has the wallets table without
   last_stamped_at.  Each variant runs against its own store. *)

LegacyStore == [customers |-> TRUE, stamps |-> TRUE]
IsLegacy == "stamps" \in DOMAIN schema

LegacyIdentifiers == Identifiers \cup {"", "b@x.com"}

\* a customer row and its stamps row as getOrCreateCustomer inserts them
LegacyCustomer == [id |-> "K7M2QX4T", name |-> "Ann", email |-> "a@x.com", phone |-> "555"]

\* SELECT count FROM stamps WHERE customer_id=?  (no row: 0)
getStamps(customer_id) ==
    IF customer_id \in DOMAIN wallets THEN wallets[customer_id].stamps ELSE 0

\* UPDATE stamps SET count=? WHERE customer_id=?
setStamps(customer_id, count) ==
    [id \in DOMAIN wallets |->
        IF id = customer_id THEN [wallets[id] EXCEPT !.stamps = count] ELSE wallets[id]]

LegacyResp(customer, stamps, redeemed) ==
    [NoResp EXCEPT !.op = "stamp", !.status = 200, !.customerId = customer.id,
                   !.stamps = stamps, !.redeemed = redeemed]

\* the synchronous addStamp: on the tenth stamp it returns before the UPDATE
addStampSync(customer_id) ==
    IF getStamps(customer_id) + 1 >= 10
    THEN [redeemed |-> TRUE, stamps |-> 0, store |-> wallets]
    ELSE [redeemed |-> FALSE, stamps |-> getStamps(customer_id) + 1,
          store |-> setStamps(customer_id, getStamps(customer_id) + 1)]

\* POST /api/stamps/add of the synchronous legacy server: one run, no await
LegacySyncAdd(p, identifier) ==
    /\ IsLegacy
    /\ pc[p] = "idle"
    /\ req' = [req EXCEPT ![p] = [NoReq EXCEPT !.op = "legacy_sync",
                                                !.identifier = identifier]]
    /\ IF ~Truthy(identifier)
       THEN Reply(p, ErrorResp("stamp", 400)) /\ UNCHANGED wallets
       ELSE IF getCustomerByIdentifier(identifier) = NoRow
       THEN Reply(p, ErrorResp("stamp", 404)) /\ UNCHANGED wallets
       ELSE LET customer == getCustomerByIdentifier(identifier)
                result == addStampSync(customer.id)
            IN /\ wallets' = result.store
               /\ Reply(p, LegacyResp(customer, result.stamps, result.redeemed))
    /\ UNCHANGED <<customers, clock, hist, signedUp, schema, boot>>

\* POST /api/stamps/add of the asynchronous legacy server, up to its first await
LegacyAsyncBegin(p, identifier) ==
    /\ IsLegacy
    /\ pc[p] = "idle"
    /\ req' = [req EXCEPT ![p] = [NoReq EXCEPT !.op = "legacy_async",
                                                !.identifier = identifier]]
    /\ IF ~Truthy(identifier)
       THEN Reply(p, ErrorResp("stamp", 400))
       ELSE Goto(p, "la_get") /\ UNCHANGED <<loc, resp>>
    /\ UNCHANGED <<customers, wallets, clock, hist, signedUp, schema, boot>>

\* const customer = await db.get('SELECT * FROM customers WHERE email=? OR phone=?')
LegacyAsyncGetCustomer(p) ==
    /\ pc[p] = "la_get"
    /\ IF getCustomerByIdentifier(req[p].identifier) = NoRow
       THEN Reply(p, ErrorResp("stamp", 404))
       ELSE /\ loc' = [loc EXCEPT ![p].customer = getCustomerByIdentifier(req[p].identifier)]
            /\ Goto(p, "la_read")
            /\ UNCHANGED resp
    /\ UNCHANGED <<customers, wallets, clock, req, hist, signedUp, schema, boot>>

\* const current = await getStamps(customer_id); let next = current + 1
LegacyAsyncGetStamps(p) ==
    /\ pc[p] = "la_read"
    /\ loc' = [loc EXCEPT ![p].stamps = getStamps(loc[p].customer.id) + 1]
    /\ Goto(p, "la_write")
    /\ UNCHANGED <<customers, wallets, clock, req, resp, hist, signedUp, schema, boot>>

\* await setStamps(customer_id, 0 or next); res.json({ ...result, customerId })
LegacyAsyncSetStamps(p) ==
    /\ pc[p] = "la_write"
    /\ IF loc[p].stamps >= 10
       THEN /\ wallets' = setStamps(loc[p].customer.id, 0)
            /\ Reply(p, LegacyResp(loc[p].customer, 0, TRUE))
       ELSE /\ wallets' = setStamps(loc[p].customer.id, loc[p].stamps)
            /\ Reply(p, LegacyResp(loc[p].customer, loc[p].stamps, FALSE))
    /\ UNCHANGED <<customers, clock, req, hist, signedUp, schema, boot>>

\* the wallets table of the static-token server after its UPDATE
StaticAward(wallet) ==
    IF wallet.stamps < 10
    THEN [stamps |-> wallet.stamps + 1, redeemed |-> FALSE,
          rewardMessage |-> IF wallet.stamps + 1 = 10 THEN REWARD ELSE NULL,
          last_redeemed_at |-> wallet.last_redeemed_at]
    ELSE [stamps |-> 0, redeemed |-> TRUE, rewardMessage |-> NULL,
          last_redeemed_at |-> toISOString(clock)]

\* POST /api/stamps/add of the static-token server: one run, no await
StaticStampAdd(p, identifier, token) ==
    /\ ~IsLegacy
    /\ pc[p] = "idle"
    /\ req' = [req EXCEPT ![p] = [NoReq EXCEPT !.op = "static",
                  !.identifier = identifier, !.token = token]]
    /\ IF ~isValidStaticToken(BodyField(token))
       THEN Reply(p, ErrorResp("stamp", 401)) /\ UNCHANGED <<customers, wallets>>
       ELSE IF ~Truthy(identifier)
       THEN Reply(p, ErrorResp("stamp", 400)) /\ UNCHANGED <<customers, wallets>>
       ELSE IF getCustomerByIdentifier(identifier) = NoRow /\ ~CustomerInsertOk(StampRow(identifier))
       THEN Reply(p, ErrorResp("stamp", 500)) /\ UNCHANGED <<customers, wallets>>
       ELSE LET customer == IF getCustomerByIdentifier(identifier) = NoRow
                            THEN StampRow(identifier)
                            ELSE getCustomerByIdentifier(identifier)
                wallet == IF HasWallet(customer.id) THEN getWallet(customer.id)
                          ELSE FreshWallet(customer.id)
                award == StaticAward(wallet)
            IN /\ customers' = IF getCustomerByIdentifier(identifier) = NoRow
                               THEN Append(customers, customer) ELSE customers
               /\ wallets' = [id \in DOMAIN wallets \cup {customer.id} |->
                                IF id = customer.id
                                THEN [stamps |-> award.stamps,
                                      last_redeemed_at |-> award.last_redeemed_at,
                                      last_stamped_at |-> NULL_TS]
                                ELSE wallets[id]]
               /\ Reply(p, [NoResp EXCEPT !.op = "stamp", !.status = 200,
                                !.customerId = customer.id, !.stamps = award.stamps,
                                !.redeemed = award.redeemed,
                                !.rewardMessage = award.rewardMessage])
    /\ UNCHANGED <<clock, hist, signedUp, schema, boot>>

\* the legacy store with one signed-up customer, or the empty static store
InitLegacy ==
    /\ \/ /\ schema = LegacyStore
          /\ customers = <<LegacyCustomer>>
          /\ wallets = [id \in {LegacyCustomer.id} |->
                          [stamps |-> 0, last_redeemed_at |-> NULL_TS,
                           last_stamped_at |-> NULL_TS]]
       \/ /\ schema = OlderStore
          /\ customers = <<>>
          /\ wallets = << >>
    /\ clock = StartClock
    /\ pc = [p \in Procs |-> "idle"]
    /\ req = [p \in Procs |-> NoReq]
    /\ loc = [p \in Procs |-> NoLoc]
    /\ resp = [p \in Procs |-> NoResp]
    /\ hist = [id \in Identifiers |-> <<>>]
    /\ signedUp = [e \in Identifiers |-> NULL]
    /\ boot = [runs |-> 1, threw |-> FALSE]

NextLegacy ==
    \E p \in Procs :
        \/ \E i \in LegacyIdentifiers : LegacySyncAdd(p, i)
        \/ \E i \in LegacyIdentifiers : LegacyAsyncBegin(p, i)
        \/ LegacyAsyncGetCustomer(p)
        \/ LegacyAsyncGetStamps(p)
        \/ LegacyAsyncSetStamps(p)
        \/ \E i \in {"", "a@x.com"}, t \in {"PASTA123", "WRONG"} : StaticStampAdd(p, i, t)
        \/ Return(p)

SpecLegacy == InitLegacy /\ [][NextLegacy]_vars

-----------------------------------------------------------------------------
(* Scans that never stop.  The handler reads the clock only through the
   difference now - Date.parse(last_stamped_at), so the origin of time can be
   moved: Rebase shifts the clock and every timestamp by the same whole
   number of seconds, between two requests, and starts the log of answers
   afresh.  With it the clock advances for ever in a finite state space. *)

Shift(ts, d) == IF ts = NULL_TS THEN NULL_TS ELSE toISOString(DateParse(ts) - d)

Rebase ==
    /\ clock > StartClock
    /\ \A p \in Procs : pc[p] = "idle"
    /\ clock' = StartClock
    /\ wallets' = [id \in DOMAIN wallets |->
                     [wallets[id] EXCEPT
                        !.last_redeemed_at = Shift(@, clock - StartClock),
                        !.last_stamped_at = Shift(@, clock - StartClock)]]
    /\ hist' = [id \in Identifiers |-> <<>>]
    /\ UNCHANGED <<customers, pc, req, loc, resp, signedUp, schema, boot>>

\* valid-token scans of one customer, one request at a time, with no
\* storage failure; the clock moves a cooldown at a time
NextLive ==
    \/ ScanStep(1)
    \/ Tick(COOLDOWN_MS, MaxHalves)
    \/ Rebase

\* the scans keep arriving and every storage call returns; the clock keeps
\* advancing
FairLive ==
    /\ WF_vars(ScanStep(1))
    /\ SF_vars(Tick(COOLDOWN_MS, MaxHalves))
    /\ SF_vars(Rebase)

SpecLive == Init /\ [][NextLive]_vars /\ FairLive

-----
(* Properties *)

\* the accepted stamp-adds of a customer's history, oldest first
StampsOf(h) == SelectSeq(h, LAMBDA e : e.op = "stamp")

\* C1 as stated: every persisted wallet has 0 <= stamps < 10.
C1_StampsBelowTen ==
    \A id \in DOMAIN wallets : 0 <= wallets[id].stamps /\ wallets[id].stamps < 10

\* C1 amended: every persisted wallet has 0 <= stamps <= 10; the scan that
\* completes the card persists 10, and only the scan after it resets to 0.
C1_StampsAtMostTen ==
    \A id \in DOMAIN wallets : 0 <= wallets[id].stamps /\ wallets[id].stamps <= 10

C1_FullCardPersisted == \E id \in DOMAIN wallets : wallets[id].stamps = 10

\* C2: a stamp-add never writes a wallet whose persisted last_stamped_at is
\* less than the cooldown before the stamp time it writes, so that of the
\* requests that start within one cooldown window at most one writes.
C2_OneWritePerWindow ==
    [][\A p \in Procs :
         (/\ pc[p] = "sa_update" /\ pc'[p] = "done" /\ resp'[p].status = 200
          /\ HasWallet(loc[p].customer.id)
          /\ wallets[loc[p].customer.id].last_stamped_at # NULL_TS)
         => DateParse(loc[p].lastStampedAt)
              - DateParse(wallets[loc[p].customer.id].last_stamped_at) >= 120 * 1000]_vars

\* C3: a stamp-add whose cooldown check comes less than 120 s after the stamp
\* an earlier stamp-add persisted for the same customer returns cooldown:true
\* and writes nothing, so the two make exactly one ledger mutation.
C3_SecondInWindowIsCooldown ==
    [][\A p \in Procs :
         (/\ pc[p] = "sa_check" /\ pc'[p] # "sa_check"
          /\ HasWallet(loc[p].customer.id)
          /\ wallets[loc[p].customer.id].last_stamped_at # NULL_TS
          /\ clock - DateParse(wallets[loc[p].customer.id].last_stamped_at) < 120 * 1000)
         => (/\ pc'[p] = "done"
             /\ resp'[p].status = 200
             /\ resp'[p].cooldown
             /\ wallets' = wallets
             /\ hist' = hist)]_vars

C3_CooldownAfterOneStamp ==
    \E p \in Procs :
        /\ pc[p] = "done" /\ resp[p].op = "stamp" /\ resp[p].cooldown
        /\ Len(StampsOf(hist[resp[p].customerId])) = 1

\* C4: a stamp-add whose token is not the secret is answered 401 at once and
\* leaves the customers and wallets tables as they were (no row is created
\* for a never-seen identifier, no wallet column changes).
C4_InvalidTokenChangesNothing ==
    [][\A p \in Procs :
         (pc[p] = "idle" /\ req'[p].op = "stamp" /\ req'[p].token # "PASTA123")
         => (/\ pc'[p] = "done"
             /\ resp'[p].status = 401
             /\ customers' = customers
             /\ wallets' = wallets)]_vars

C4_WrongTokenOnUnseenIdentifier ==
    \E p \in Procs :
        /\ pc[p] = "done" /\ req[p].op = "stamp" /\ resp[p].status = 401
        /\ req[p].token = "WRONG" /\ req[p].identifier = "555"
        /\ Matches("555") = <<>>
        /\ \E id \in DOMAIN wallets : wallets[id].stamps > 0

\* C5: the accepted stamp-add that finds 9 stamps persisted returns
\* redeemed=false with a reward message, and the next accepted stamp-add of
\* that wallet returns stamps=0 with redeemed=true.
C5_RewardThenRedeem ==
    \A id \in Identifiers :
        LET s == StampsOf(hist[id]) IN
        \A i \in 1..Len(s) :
            s[i].before = 9 =>
                /\ ~s[i].redeemed
                /\ s[i].rewardMessage # NULL
                /\ i < Len(s) => (s[i + 1].stamps = 0 /\ s[i + 1].redeemed)

C5_RedeemedAfterReward ==
    \E id \in Identifiers :
        LET s == StampsOf(hist[id]) IN
        \E i \in 1..Len(s) : s[i].before = 9 /\ i < Len(s)

\* C6 as stated: after a signup that returns 0 stamps, the accepted stamp-adds
\* return 1..9, the 9th with a reward message, and the 10th returns stamps=0
\* with redeemed=true.
C6_TenthScanRedeems ==
    \A id \in Identifiers :
        LET h == hist[id]
            s == StampsOf(hist[id]) IN
        (h # <<>> /\ h[1].op = "signup" /\ h[1].stamps = 0) =>
            \A i \in 1..Len(s) :
                /\ i <= 9 => (s[i].stamps = i /\ ~s[i].redeemed)
                /\ i = 9 => s[i].rewardMessage # NULL
                /\ i = 10 => (s[i].stamps = 0 /\ s[i].redeemed)

\* C6 amended: the signup of a fresh customer returns 0 stamps, the accepted
\* stamp-adds that follow return 1..10 with redeemed=false, the 10th of them
\* (and no earlier one) with a reward message, and the 11th returns stamps=0
\* with redeemed=true and no message.
C6_EleventhScanRedeems ==
    \A id \in Identifiers :
        LET h == hist[id]
            s == StampsOf(hist[id]) IN
        (h # <<>> /\ h[1].op = "signup") =>
            /\ h[1].stamps = 0
            /\ \A i \in 1..Len(s) :
                /\ i <= 10 => /\ s[i].stamps = i
                              /\ ~s[i].redeemed
                              /\ (s[i].rewardMessage # NULL) <=> (i = 10)
                /\ i = 11 => (s[i].stamps = 0 /\ s[i].redeemed /\ s[i].rewardMessage = NULL)

C6_SignupThenElevenScans ==
    \E id \in Identifiers :
        /\ hist[id] # <<>> /\ hist[id][1].op = "signup"
        /\ Len(StampsOf(hist[id])) >= 11

\* C7: a signup never changes an existing wallet row, and a successful signup
\* with an email returns the customer id that the first successful signup
\* with that email returned.
C7_SignupIdempotent ==
    [][\A p \in Procs :
         (req'[p].op = "signup" /\ pc'[p] # pc[p]) =>
            /\ \A id \in DOMAIN wallets :
                  id \in DOMAIN wallets' /\ wallets'[id] = wallets[id]
            /\ (/\ pc'[p] = "done" /\ resp'[p].status = 200
                /\ Truthy(req'[p].email)
                /\ signedUp[req'[p].email] # NULL)
               => resp'[p].customerId = signedUp[req'[p].email]]_vars

C7_RepeatedSignupOfStampedCustomer ==
    \E p \in Procs :
        /\ pc[p] = "done" /\ resp[p].op = "signup" /\ resp[p].status = 200
        /\ req[p].email = "a@x.com" /\ signedUp["a@x.com"] = resp[p].customerId
        /\ Len(customers) = 1 /\ customers[1].phone = NULL
        /\ hist[resp[p].customerId][1].op = "signup"
        /\ resp[p].stamps >= 1

\* C8: the cooldown check lets a stamp-add through exactly when the wallet
\* has no last_stamped_at or at least 120 s have passed since it; exactly
\* 120 s is let through.
C8_CooldownGuard ==
    [][\A p \in Procs :
         (pc[p] = "sa_check" /\ pc'[p] # "sa_check") =>
            /\ HasWallet(loc[p].customer.id)
            /\ pc'[p] \in {"sa_update", "done"}
            /\ (pc'[p] = "sa_update") <=>
                 \/ wallets[loc[p].customer.id].last_stamped_at = NULL_TS
                 \/ clock - DateParse(wallets[loc[p].customer.id].last_stamped_at)
                      >= 120 * 1000]_vars

C8_AllowedAtExactlyTheCooldown ==
    \E p \in Procs :
        /\ pc[p] = "sa_update"
        /\ loc[p].wallet.last_stamped_at # NULL_TS
        /\ DateParse(loc[p].lastStampedAt) - DateParse(loc[p].wallet.last_stamped_at)
             = 120 * 1000

\* C9: a stamp-add stopped by the cooldown leaves the wallets table as it
\* was and answers with the persisted stamp count and with the least whole
\* number of seconds that covers the rest of the 120 s window.
C9_CooldownResponse ==
    [][\A p \in Procs :
         (pc[p] = "sa_check" /\ pc'[p] = "done") =>
            LET w == wallets[loc[p].customer.id]
                remaining == 120 * 1000 - (clock - DateParse(w.last_stamped_at)) IN
            /\ wallets' = wallets
            /\ w.last_stamped_at # NULL_TS
            /\ resp'[p].cooldown
            /\ resp'[p].customerId = loc[p].customer.id
            /\ resp'[p].stamps = w.stamps
            /\ (resp'[p].secondsLeft - 1) * 1000 < remaining
            /\ remaining <= resp'[p].secondsLeft * 1000]_vars

C9_CooldownWithFractionalSeconds ==
    \E p \in Procs :
        /\ pc[p] = "done" /\ resp[p].op = "stamp" /\ resp[p].cooldown
        /\ resp[p].stamps >= 1
        /\ (clock - DateParse(wallets[resp[p].customerId].last_stamped_at)) % 1000 # 0

\* C10: an accepted stamp-add is a redemption (stamps=0, redeemed=true)
\* exactly when the 10 accepted stamp-adds before it were accruals that
\* follow the wallet's creation or its previous redemption; the scan before
\* a redemption is the one that reached 10.
C10_RedeemAfterTenAccruals ==
    \A id \in Identifiers :
        LET s == StampsOf(hist[id])
            TenAccrualsBefore(i) ==
                /\ i > 10
                /\ \A j \in (i - 10)..(i - 1) : ~s[j].redeemed
                /\ i - 11 >= 1 => s[i - 11].redeemed
        IN  \A i \in 1..Len(s) :
                /\ s[i].redeemed <=> TenAccrualsBefore(i)
                /\ s[i].redeemed => (s[i].stamps = 0 /\ s[i - 1].stamps = 10)

C10_RedeemedAndStartedOver ==
    \E id \in Identifiers :
        LET s == StampsOf(hist[id]) IN
        Len(s) >= 12 /\ s[11].redeemed /\ s[12].stamps = 1

\* C11: a wallet row's last_redeemed_at changes only in a write that sets
\* stamps to 0; a write that leaves stamps above 0 keeps the persisted
\* last_redeemed_at, and a write of stamps = 0 to an existing row carries the
\* time the handler read when it took the redemption branch.
C11_RedeemedAtOnlyOnReset ==
    [][/\ \A id \in DOMAIN wallets :
             (id \in DOMAIN wallets' /\ wallets'[id] # wallets[id]) =>
                /\ wallets'[id].stamps # 0 =>
                      wallets'[id].last_redeemed_at = wallets[id].last_redeemed_at
                /\ wallets'[id].stamps = 0 =>
                      \E p \in Procs :
                          /\ pc[p] = "sa_update" /\ loc[p].customer.id = id
                          /\ loc[p].redeemedNow
                          /\ wallets'[id].last_redeemed_at = loc[p].lastRedeemedAt
                          /\ wallets'[id].last_redeemed_at # NULL_TS
       /\ \A p \in Procs :
             (pc[p] = "sa_check" /\ pc'[p] = "sa_update") =>
                /\ loc'[p].stamps = 0 <=> loc[p].wallet.stamps >= 10
                /\ loc'[p].stamps = 0 =>
                      (loc'[p].redeemedNow /\ DateParse(loc'[p].lastRedeemedAt) = clock)
                /\ loc'[p].stamps # 0 =>
                      loc'[p].lastRedeemedAt = loc[p].wallet.last_redeemed_at]_vars

\* C12: every accepted stamp-add, whatever the stamp count it found (below
\* 9, 9, or 10), takes the time of its cooldown check as the new
\* last_stamped_at and writes it in the one update that writes stamps; a
\* wallet row never changes without its last_stamped_at being set in the
\* same step.
C12_StampedAtOnEveryWrite ==
    [][/\ \A p \in Procs :
             /\ (pc[p] = "sa_check" /\ pc'[p] = "sa_update") =>
                    /\ loc'[p].lastStampedAt # NULL_TS
                    /\ DateParse(loc'[p].lastStampedAt) = clock
             /\ (pc[p] = "sa_update" /\ pc'[p] = "done" /\ resp'[p].status = 200) =>
                    /\ wallets'[loc[p].customer.id].stamps = resp'[p].stamps
                    /\ wallets'[loc[p].customer.id].last_stamped_at = loc[p].lastStampedAt
       /\ \A id \in DOMAIN wallets :
             (id \in DOMAIN wallets' /\ wallets'[id] # wallets[id]) =>
                \E p \in Procs :
                    /\ pc[p] = "sa_update" /\ loc[p].customer.id = id
                    /\ wallets'[id].stamps = loc[p].stamps
                    /\ wallets'[id].last_stamped_at = loc[p].lastStampedAt]_vars

\* a scan right after the redemption scan is stopped by the cooldown the
\* redemption started
C12_CooldownAfterRedemption ==
    \E p \in Procs :
        /\ pc[p] = "done" /\ resp[p].op = "stamp" /\ resp[p].cooldown
        /\ resp[p].stamps = 0
        /\ wallets[resp[p].customerId].last_redeemed_at # NULL_TS
        /\ wallets[resp[p].customerId].last_stamped_at =
              wallets[resp[p].customerId].last_redeemed_at
        /\ DateParse(wallets[resp[p].customerId].last_stamped_at) % 1000 # 0

\* C13: a signup or stamp-add that answers 200 leaves a wallet row for the
\* customer it names (the primary key customer_id makes it the only one); a
\* wallet row never disappears; rows appear one at a time, with stamps = 0
\* and both timestamps NULL, for the customer the creating request resolved;
\* and an existing row changes only by a stamp-add's update, never by being
\* created again.
C13_OneWalletPerCustomer ==
    [][/\ \A p \in Procs :
             (pc[p] # "done" /\ pc'[p] = "done" /\ resp'[p].status = 200) =>
                resp'[p].customerId \in DOMAIN wallets'
       /\ DOMAIN wallets \subseteq DOMAIN wallets'
       /\ \A id \in DOMAIN wallets' \ DOMAIN wallets :
             /\ DOMAIN wallets' = DOMAIN wallets \cup {id}
             /\ wallets'[id].stamps = 0
             /\ wallets'[id].last_stamped_at = NULL_TS
             /\ wallets'[id].last_redeemed_at = NULL_TS
             /\ \E p \in Procs : pc[p] \in {"su_mkwallet", "sa_mkwallet"}
                                  /\ loc[p].customer.id = id
       /\ \A id \in DOMAIN wallets :
             wallets'[id] # wallets[id] =>
                \E p \in Procs : pc[p] = "sa_update" /\ loc[p].customer.id = id]_vars

\* both customers have a wallet, one created by a signup and stamped since,
\* and a signup of that customer has just answered with its stamps
C13_WalletsOfTwoCustomers ==
    \E p \in Procs :
        /\ pc[p] = "done" /\ resp[p].op = "signup" /\ resp[p].status = 200
        /\ DOMAIN wallets = {"a@x.com", "555"}
        /\ hist[resp[p].customerId][1].op = "signup"
        /\ wallets[resp[p].customerId].stamps >= 1

\* C14: whatever storage call of a stamp-add throws, before taking effect
\* or after, each step of the request leaves every existing wallet row
\* either as it was or with the whole transition applied (the next stamps
\* value, the request's time as last_stamped_at, and last_redeemed_at kept or
\* set to that time on a reset); a row the request creates has stamps = 0
\* and no timestamps; and a success response other than the cooldown answer
\* is given only in the step that commits the wallet write, with the stamps
\* that write persisted.
C14_AllOrNothingWrite ==
    [][\A p \in Procs :
         (req[p].op = "stamp" /\ pc'[p] # pc[p]) =>
            /\ \A id \in DOMAIN wallets :
                  \/ wallets'[id] = wallets[id]
                  \/ /\ pc[p] = "sa_update" /\ id = loc[p].customer.id
                     /\ loc[p].lastStampedAt # NULL_TS
                     /\ wallets'[id].last_stamped_at = loc[p].lastStampedAt
                     /\ IF wallets[id].stamps < 10
                        THEN /\ wallets'[id].stamps = wallets[id].stamps + 1
                             /\ wallets'[id].last_redeemed_at = wallets[id].last_redeemed_at
                        ELSE /\ wallets'[id].stamps = 0
                             /\ wallets'[id].last_redeemed_at = loc[p].lastStampedAt
            /\ \A id \in DOMAIN wallets' \ DOMAIN wallets :
                  /\ wallets'[id].stamps = 0
                  /\ wallets'[id].last_stamped_at = NULL_TS
                  /\ wallets'[id].last_redeemed_at = NULL_TS
            /\ (pc'[p] = "done" /\ resp'[p].status = 200 /\ ~resp'[p].cooldown) =>
                  /\ pc[p] = "sa_update"
                  /\ wallets'[loc[p].customer.id] # wallets[loc[p].customer.id]
                  /\ wallets'[loc[p].customer.id].stamps = resp'[p].stamps]_vars

\* a stamp-add has just answered 500 although its update was applied: the
\* wallet holds a second stamp that no response reported
C14_WriteCommittedReplyLost ==
    \E p \in Procs :
        /\ pc[p] = "done" /\ req[p].op = "stamp" /\ resp[p].status = 500
        /\ "a@x.com" \in DOMAIN wallets
        /\ wallets["a@x.com"].stamps = 2
        /\ DateParse(wallets["a@x.com"].last_stamped_at) = clock
        /\ Len(StampsOf(hist["a@x.com"])) = 1

\* C15: after every step each customer row has a non-empty email or a
\* non-empty phone, and the rows that existed before the step are still
\* there, in place, with the id they had.
C15_ContactSetAndIdStable ==
    [][/\ \A i \in 1..Len(customers') :
             \/ (customers'[i].email # "<null>" /\ customers'[i].email # "")
             \/ (customers'[i].phone # "<null>" /\ customers'[i].phone # "")
       /\ Len(customers') >= Len(customers)
       /\ \A i \in 1..Len(customers) : customers'[i].id = customers[i].id]_vars

\* a customer stored with a phone alone and one stored with an email alone,
\* one of them stamped after its creation
C15_PhoneOnlyAndEmailOnlyRows ==
    /\ Len(customers) = 2
    /\ \E i, j \in 1..2 :
          /\ customers[i].email = NULL /\ customers[i].phone = "555"
          /\ customers[j].phone = NULL /\ customers[j].email = "a@x.com"
    /\ \E id \in DOMAIN wallets : wallets[id].stamps >= 1

C17_MissingIdentifierIs400 ==
    [][\A p \in Procs :
         (/\ pc[p] = "idle" /\ req'[p].op = "stamp"
          /\ req'[p].identifier \in {"<null>", ""})
         => (/\ pc'[p] = "done"
             /\ resp'[p].status = 400
             /\ customers' = customers
             /\ wallets' = wallets)]_vars

\* C17 amended: a stamp-add is answered 401 exactly when its token is not
\* the secret, whatever its identifier, and 400 exactly when its token is
\* the secret and its identifier is missing or empty; both answers come at
\* once and change neither table, and their status codes differ.
C17_TokenCheckedBeforeIdentifier ==
    [][\A p \in Procs :
         (pc[p] = "idle" /\ req'[p].op = "stamp") =>
            /\ req'[p].token # "PASTA123" <=>
                  (pc'[p] = "done" /\ resp'[p].status = 401)
            /\ (req'[p].token = "PASTA123" /\ req'[p].identifier \in {"<null>", ""}) <=>
                  (pc'[p] = "done" /\ resp'[p].status = 400)
            /\ pc'[p] = "done" =>
                  (/\ resp'[p].status \in {400, 401}
                   /\ customers' = customers
                   /\ wallets' = wallets)]_vars

\* a stamp-add with the secret and an empty identifier has been answered
\* 400 in a store that holds a stamped wallet
C17_ValidTokenEmptyIdentifier ==
    \E p \in Procs :
        /\ pc[p] = "done" /\ req[p].op = "stamp" /\ resp[p].status = 400
        /\ req[p].token = "PASTA123" /\ req[p].identifier = ""
        /\ \E id \in DOMAIN wallets : wallets[id].stamps >= 1

C19_InitSchemaIdempotent ==
    [][boot'.runs # boot.runs =>
          /\ schema.customers /\ schema.wallets /\ schema.last_stamped_at
          /\ ~boot'.threw
          /\ schema' = schema
          /\ customers' = customers
          /\ wallets' = wallets]_vars

\* the server has been started again on a store that holds a customer and a
\* stamped wallet
C19_RestartedWithRows ==
    /\ boot.runs >= 2
    /\ \A p \in Procs : pc[p] = "idle"
    /\ Len(customers) = 1
    /\ \E id \in DOMAIN wallets :
          wallets[id].stamps >= 1 /\ wallets[id].last_stamped_at # NULL_TS

\* C20: with one request at a time, a valid-token stamp-add whose lookup
\* finds no customer inserts one row, with the identifier as id, no name, and
\* the identifier as email ("a@x.com") or as phone ("555") and NULL in the
\* other column; it then resolves that row, finds no wallet for it and
\* creates one; with the fresh wallet it passes the cooldown check and its
\* update persists stamps = 1, answered with stamps = 1 and redeemed = false.
\* Only a storage failure (answer 500) ends the request earlier.
C20_FirstScanOfNewIdentifier ==
    [][\A p \in Procs :
         LET id == req[p].identifier IN
         /\ (pc[p] = "sa_get" /\ pc'[p] # pc[p] /\ Matches(id) = <<>>) =>
               pc'[p] = "sa_create" \/ (pc'[p] = "done" /\ resp'[p].status = 500)
         /\ (pc[p] = "sa_create" /\ pc'[p] # pc[p]) =>
               \/ /\ pc'[p] = "sa_reget"
                  /\ Len(customers') = Len(customers) + 1
                  /\ \A i \in 1..Len(customers) : customers'[i] = customers[i]
                  /\ customers'[Len(customers')] =
                        [id |-> id, name |-> "<null>",
                         email |-> IF id = "a@x.com" THEN id ELSE "<null>",
                         phone |-> IF id = "555" THEN id ELSE "<null>"]
               \/ /\ pc'[p] = "done" /\ resp'[p].status = 500
                  /\ customers' = customers
         /\ (pc[p] = "sa_reget" /\ pc'[p] # pc[p]) =>
               \/ /\ pc'[p] = "sa_wallet"
                  /\ loc'[p].customer = customers[Len(customers)]
                  /\ loc'[p].customer.id = id
                  /\ id \notin DOMAIN wallets
               \/ pc'[p] = "done" /\ resp'[p].status = 500
         /\ (pc[p] = "sa_wallet" /\ pc'[p] # pc[p]
                /\ loc[p].customer.id \notin DOMAIN wallets) =>
               pc'[p] = "sa_mkwallet" \/ (pc'[p] = "done" /\ resp'[p].status = 500)
         /\ (pc[p] = "sa_mkwallet" /\ pc'[p] # pc[p]) =>
               \/ /\ pc'[p] = "sa_check"
                  /\ DOMAIN wallets' = DOMAIN wallets \cup {loc[p].customer.id}
                  /\ loc[p].customer.id \notin DOMAIN wallets
                  /\ wallets'[loc[p].customer.id].stamps = 0
                  /\ loc'[p].wallet.stamps = 0
                  /\ loc'[p].wallet.last_stamped_at = NULL_TS
               \/ /\ pc'[p] = "done" /\ resp'[p].status = 500
                  /\ wallets' = wallets
         /\ (pc[p] = "sa_check" /\ pc'[p] # pc[p]
                /\ loc[p].wallet.last_stamped_at = NULL_TS) =>
               /\ pc'[p] = "sa_update"
               /\ loc[p].wallet.stamps = 0
               /\ loc'[p].stamps = 1
         /\ (pc[p] = "sa_update" /\ pc'[p] # pc[p]
                /\ loc[p].wallet.last_stamped_at = NULL_TS) =>
               \/ /\ pc'[p] = "done" /\ resp'[p].status = 200
                  /\ ~resp'[p].cooldown
                  /\ resp'[p].customerId = loc[p].customer.id
                  /\ resp'[p].stamps = 1
                  /\ resp'[p].redeemed = FALSE
                  /\ wallets'[loc[p].customer.id].stamps = 1
               \/ /\ pc'[p] = "done" /\ resp'[p].status = 500
                  /\ wallets' = wallets]_vars

\* the first scan of the phone identifier has been answered with one stamp;
\* its customer row came from the scan (no name) and is the second row
C20_FirstScanByPhoneAnswered ==
    \E p \in Procs :
        /\ pc[p] = "done" /\ req[p].op = "stamp" /\ req[p].identifier = "555"
        /\ resp[p].status = 200 /\ resp[p].stamps = 1 /\ ~resp[p].redeemed
        /\ Len(customers) = 2
        /\ customers[2] = [id |-> "555", name |-> NULL, email |-> NULL, phone |-> "555"]
        /\ wallets["555"].stamps = 1
        /\ Len(hist["555"]) = 1

\* C21: when requests for the never-seen identifier "a@x.com" overlap and no
\* storage call fails for another reason, a request is answered 500 only at
\* an insert that finds the row already there (the customer with that id,
\* or the wallet of that customer), and that step writes nothing; a request
\* answered 500 has written no stamps and no timestamps, the wallet changing
\* only in the update of a request that is answered 200; and once every
\* request is answered, if one of them passed validation the store holds
\* exactly one customer row and exactly one wallet row for the identifier.
C21_InsertRaceKeepsOneRow ==
    [][/\ \A p \in Procs :
             (pc[p] # "done" /\ pc'[p] = "done" /\ resp'[p].status = 500) =>
                /\ \/ /\ pc[p] \in {"su_create", "sa_create"}
                      /\ \E i \in 1..Len(customers) : customers[i].id = req[p].identifier
                   \/ /\ pc[p] \in {"su_mkwallet", "sa_mkwallet"}
                      /\ loc[p].customer.id \in DOMAIN wallets
                /\ customers' = customers
                /\ wallets' = wallets
       /\ \A id \in DOMAIN wallets :
             wallets'[id] # wallets[id] =>
                \E p \in Procs : pc[p] = "sa_update" /\ resp'[p].status = 200
       /\ Len(customers') <= 1
       /\ \A i \in 1..Len(customers') : customers'[i].id = "a@x.com"
       /\ DOMAIN wallets' \subseteq {"a@x.com"}
       /\ (/\ \A p \in Procs : pc'[p] = "done"
           /\ \E p \in Procs : resp'[p].status \in {200, 500})
          => (Len(customers') = 1 /\ DOMAIN wallets' = {"a@x.com"})]_vars

\* a signup and a stamp-add for the same new identifier have both been
\* answered: one lost an insert (500), the other went through, and the store
\* holds the one customer and the one wallet
C21_LoserAnswered500 ==
    \E p, q \in Procs :
        /\ pc[p] = "done" /\ resp[p].status = 500 /\ req[p].op = "stamp"
        /\ pc[q] = "done" /\ resp[q].status = 200 /\ req[q].op = "signup"
        /\ Len(customers) = 1
        /\ DOMAIN wallets = {"a@x.com"}
        /\ wallets["a@x.com"].stamps = 0

\* C22: in every state each identifier equals the email or the phone of at
\* most one customer row.
C22_IdentifierMatchesOneRow ==
    \A ident \in {"a@x.com", "555"} :
        Cardinality({i \in 1..Len(customers) :
                        \/ customers[i].email = ident
                        \/ customers[i].phone = ident}) <= 1

\* C23: a signup whose identifier matches no customer, but whose phone is
\* the phone of a stored customer (or whose identifier is a stored id), is
\* answered 500 at its insert, and that step leaves the customers and the
\* wallets tables as they were; such a signup adds no row before it either.
C23_ConflictingSignupFails ==
    [][\A p \in Procs :
         /\ (/\ pc[p] = "su_create" /\ pc'[p] # pc[p]
             /\ \E i \in 1..Len(customers) :
                   \/ (req[p].phone \notin {"<null>", ""} /\ customers[i].phone = req[p].phone)
                   \/ customers[i].id = req[p].identifier)
            => (/\ pc'[p] = "done"
                /\ resp'[p].status = 500
                /\ customers' = customers
                /\ wallets' = wallets)
         /\ (req[p].op = "signup" /\ pc[p] \in {"su_get", "su_create"}
                /\ pc'[p] \in {"su_create", "done"})
            => (customers' = customers /\ wallets' = wallets)]_vars

\* a signup with the new email "a@x.com" and the phone "555" of the one
\* stored customer has been answered 500; the store still holds that
\* customer alone, with its stamped wallet
C23_SignupWithTakenPhoneRefused ==
    \E p \in Procs :
        /\ pc[p] = "done" /\ req[p].op = "signup" /\ resp[p].status = 500
        /\ req[p].email = "a@x.com" /\ req[p].phone = "555"
        /\ customers = <<[id |-> "555", name |-> NULL, email |-> NULL, phone |-> "555"]>>
        /\ DOMAIN wallets = {"555"}
        /\ wallets["555"].stamps = 1

\* C24: whenever a stamp-add is answered with a success that is not a
\* cooldown answer, the stamps of the response is the stamps stored for that
\* customer once the handler's step has committed.
C24_ResponseStampsArePersisted ==
    [][\A p \in Procs :
         (/\ pc[p] # "done" /\ pc'[p] = "done"
          /\ resp'[p].op = "stamp" /\ resp'[p].status = 200
          /\ ~resp'[p].cooldown)
         => /\ resp'[p].customerId \in DOMAIN wallets'
            /\ resp'[p].stamps = wallets'[resp'[p].customerId].stamps]_vars

\* C25: every cooldown answer carries a whole number of seconds left
\* between 1 and 120 (the clock of the model never runs backwards, so a
\* stored last_stamped_at is never later than the clock that reads it).
C25_SecondsLeftWithinCooldown ==
    /\ \A id \in DOMAIN wallets :
          wallets[id].last_stamped_at # NULL_TS =>
              DateParse(wallets[id].last_stamped_at) <= clock
    /\ \A p \in Procs :
          (pc[p] = "done" /\ resp[p].cooldown) =>
              resp[p].secondsLeft \in 1..(COOLDOWN_MS \div 1000)

\* a scan in the last second of the cooldown was told 1 second is left
C25_LastSecondOfCooldown ==
    \E p \in Procs :
        /\ pc[p] = "done" /\ resp[p].cooldown
        /\ resp[p].secondsLeft = 1
        /\ clock - LastStamped(getWallet(resp[p].customerId)) > COOLDOWN_MS - 1000

\* C26: under scans that keep arriving, a clock that keeps advancing and
\* storage calls that succeed, again and again a stamp-add is accepted (a
\* success that is not a cooldown answer), and again and again a stamp-add
\* is answered redeemed = true with stamps = 0 and the wallet stored at 0.
C26_RedemptionRecurs ==
    /\ []<>(\E p \in Procs : /\ pc[p] = "done" /\ resp[p].status = 200
                              /\ ~resp[p].cooldown)
    /\ []<>(\E p \in Procs : /\ pc[p] = "done" /\ resp[p].status = 200
                              /\ resp[p].redeemed /\ resp[p].stamps = 0
                              /\ getWallet(resp[p].customerId).stamps = 0)

\* the card is full for the second time: a redemption lies behind it
C26_SecondCardFull ==
    \E p \in Procs :
        /\ pc[p] = "done" /\ resp[p].status = 200
        /\ resp[p].stamps = THRESHOLD /\ resp[p].rewardMessage = REWARD
        /\ getWallet(resp[p].customerId).last_redeemed_at # NULL_TS

====
